---- MODULE Spec2Model ----
(***************************************************************************)
(* Model of band/cloud/cloud.go: the request builder (Client.NewRequest),  *)
(* the response decoder (Client.Do), the six resource accessors and the    *)
(* static credential supplier (tokenSource.Token).                         *)
(*                                                                         *)
(* Strings that the code inspects character by character (URLs, paths,     *)
(* HTTP methods) are sequences of one-character strings.                   *)
(***************************************************************************)
EXTENDS Integers, Sequences, FiniteSets, TLC

\* ---------------------------------------------------------------- bounds
\* Longest path / identifier / period handed to NewRequest or an accessor.
MaxLen == 3
\* Number of calls that may run concurrently on the shared Client.
NumCalls == 2
\* Number of Token() calls followed on one tokenSource.
MaxTokenCalls == 4

\* Characters paths and identifiers are drawn from: a letter, the path
\* separator, a character the URL serialiser escapes, and the escape
\* character itself (never followed by hex digits here, so always malformed).
Alphabet == {"P", "/", " ", "%"}

RECURSIVE StringsUpTo(_)
StringsUpTo(n) ==
    IF n = 0 THEN {<<>>}
    ELSE LET shorter == StringsUpTo(n - 1)
         IN  shorter \cup {Append(s, c) : s \in {t \in shorter : Len(t) = n - 1}, c \in Alphabet}

Paths == StringsUpTo(MaxLen)

\* ----------------------------------------------------- package constants
BASE_URL ==
    <<"h","t","t","p","s",":","/","/","a","p","i",".","m","i","c","r","o","s","o","f","t",
      "h","e","a","l","t","h",".","n","e","t","/","v","1","/","m","e">>

USER_AGENT == "go-microsoft-band-cloud-api:v0.0.1"

\* ------------------------------------------------------- character tools
Lower == {"a","b","c","d","e","f","g","h","i","j","k","l","m",
          "n","o","p","q","r","s","t","u","v","w","x","y","z"}
Upper == {"A","B","C","D","E","F","G","H","I","J","K","L","M",
          "N","O","P","Q","R","S","T","U","V","W","X","Y","Z"}
Digits == {"0","1","2","3","4","5","6","7","8","9"}
HexChars == Digits \cup {"a","b","c","d","e","f","A","B","C","D","E","F"}
Letters == Lower \cup Upper
AlNum == Letters \cup Digits
HostPunct == {"!","$","&","'","(",")","*","+",",",";","=",":","[","]","<",">","\""}
\* The grave accent (byte 0x60), which a string of this module cannot hold
\* literally: it is written by this name wherever a character is expected.
Backtick == "BACKTICK"
Unreserved == {"-","_",".","~"}
Reserved == {"$","&","+",",","/",":",";","=","?","@"}
SchemePunct == Digits \cup {"+", "-", "."}

\* unhex: the value of a hex digit.
Unhex(c) ==
    CASE c \in {"0"} -> 0 [] c = "1" -> 1 [] c = "2" -> 2 [] c = "3" -> 3
      [] c = "4" -> 4 [] c = "5" -> 5 [] c = "6" -> 6 [] c = "7" -> 7
      [] c = "8" -> 8 [] c = "9" -> 9
      [] c \in {"a","A"} -> 10 [] c \in {"b","B"} -> 11 [] c \in {"c","C"} -> 12
      [] c \in {"d","D"} -> 13 [] c \in {"e","E"} -> 14 [] c \in {"f","F"} -> 15

UpperHex == <<"0","1","2","3","4","5","6","7","8","9","A","B","C","D","E","F">>

\* Byte value of the characters that can be escaped, and its inverse.
Ord(c) == CASE c = " " -> 32 [] c = "%" -> 37 [] c = "/" -> 47 [] c = "P" -> 80
Chr(n) == CASE n = 32 -> " " [] n = 37 -> "%" [] n = 47 -> "/" [] n = 80 -> "P"
            [] OTHER -> "?"

\* strings.ToLower on the characters of a scheme.
ToLowerChar(c) == IF c = "P" THEN "p" ELSE c
ToLower(s) == [i \in 1..Len(s) |-> ToLowerChar(s[i])]

HasPrefix(s, p) == Len(s) >= Len(p) /\ SubSeq(s, 1, Len(p)) = p
Contains(s, c) == \E i \in 1..Len(s) : s[i] = c
\* strings.Index: position of the first c in s, 0 when there is none.
Index(s, c) == IF Contains(s, c) THEN CHOOSE i \in 1..Len(s) : s[i] = c /\ \A j \in 1..(i-1) : s[j] # c
               ELSE 0
Tail0(s, i) == SubSeq(s, i, Len(s))

\* ------------------------------------------------------------- net/url
\* url.shouldEscape for the two modes the code path uses.
ShouldEscape(c, mode) ==
    IF c \in AlNum THEN FALSE
    ELSE IF mode = "host" /\ c \in HostPunct THEN FALSE
    ELSE IF c \in Unreserved THEN FALSE
    ELSE IF c \in Reserved /\ mode = "path" THEN c = "?"
    ELSE TRUE

\* url.escape: percent-encode every character shouldEscape names.
RECURSIVE Escape(_, _)
Escape(s, mode) ==
    IF s = <<>> THEN <<>>
    ELSE LET c == Head(s)
         IN  (IF ShouldEscape(c, mode)
              THEN <<"%", UpperHex[(Ord(c) \div 16) + 1], UpperHex[(Ord(c) % 16) + 1]>>
              ELSE <<c>>) \o Escape(Tail(s), mode)

\* url.unescape: err is "nil" or the error; val the decoded string.
RECURSIVE Unescape(_, _)
Unescape(s, mode) ==
    IF s = <<>> THEN [err |-> "nil", val |-> <<>>]
    ELSE IF Head(s) = "%"
    THEN IF Len(s) < 3 \/ s[2] \notin HexChars \/ s[3] \notin HexChars
         THEN [err |-> "invalid URL escape", val |-> <<>>]
         ELSE IF mode = "host" /\ Unhex(s[2]) < 8 /\ SubSeq(s, 1, 3) # <<"%","2","5">>
         THEN [err |-> "invalid URL escape", val |-> <<>>]
         ELSE LET r == Unescape(Tail0(s, 4), mode)
              IN  IF r.err # "nil" THEN r
                  ELSE [err |-> "nil", val |-> <<Chr(16 * Unhex(s[2]) + Unhex(s[3]))>> \o r.val]
    ELSE IF mode = "host" /\ ShouldEscape(Head(s), "host")
    THEN [err |-> "invalid character in host name", val |-> <<>>]
    ELSE LET r == Unescape(Tail(s), mode)
         IN  IF r.err # "nil" THEN r
             ELSE [err |-> "nil", val |-> <<Head(s)>> \o r.val]

\* url.getScheme
RECURSIVE GetSchemeAt(_, _)
GetSchemeAt(s, i) ==
    IF i > Len(s) THEN [err |-> "nil", scheme |-> <<>>, rest |-> s]
    ELSE IF s[i] \in Letters THEN GetSchemeAt(s, i + 1)
    ELSE IF s[i] \in SchemePunct
    THEN IF i = 1 THEN [err |-> "nil", scheme |-> <<>>, rest |-> s]
         ELSE GetSchemeAt(s, i + 1)
    ELSE IF s[i] = ":"
    THEN IF i = 1 THEN [err |-> "missing protocol scheme", scheme |-> <<>>, rest |-> <<>>]
         ELSE [err |-> "nil", scheme |-> SubSeq(s, 1, i - 1), rest |-> Tail0(s, i + 1)]
    ELSE [err |-> "nil", scheme |-> <<>>, rest |-> s]

GetScheme(s) == GetSchemeAt(s, 1)

\* The fields of url.URL the code path reads or writes.  No string of the
\* model holds "?", "#" or "@", so RawQuery, Fragment and User stay empty.
NoURL == [Scheme |-> <<>>, Opaque |-> <<>>, Host |-> <<>>, Path |-> <<>>, RawPath |-> <<>>]

\* URL.setPath
SetPath(u, p) ==
    LET r == Unescape(p, "path")
    IN  IF r.err # "nil" THEN [err |-> r.err, url |-> u]
        ELSE [err |-> "nil",
              url |-> [u EXCEPT !.Path = r.val,
                                !.RawPath = IF Escape(r.val, "path") = p THEN <<>> ELSE p]]

\* url.Parse (url.parse with viaRequest = false).
Parse(rawURL) ==
    LET g == GetScheme(rawURL)
        rest == g.rest
        u0 == [NoURL EXCEPT !.Scheme = ToLower(g.scheme)]
    IN  IF g.err # "nil" THEN [err |-> g.err, url |-> NoURL]
        ELSE IF ~HasPrefix(rest, <<"/">>) /\ u0.Scheme # <<>>
        THEN [err |-> "nil", url |-> [u0 EXCEPT !.Opaque = rest]]
        ELSE IF ~HasPrefix(rest, <<"/">>)
                /\ Contains(IF Contains(rest, "/") THEN SubSeq(rest, 1, Index(rest, "/") - 1) ELSE rest, ":")
        THEN [err |-> "first path segment in URL cannot contain colon", url |-> NoURL]
        ELSE IF (u0.Scheme # <<>> \/ ~HasPrefix(rest, <<"/","/","/">>)) /\ HasPrefix(rest, <<"/","/">>)
        THEN LET a == Tail0(rest, 3)
                 cut == Index(a, "/")
                 authority == IF cut > 0 THEN SubSeq(a, 1, cut - 1) ELSE a
                 path == IF cut > 0 THEN Tail0(a, cut) ELSE <<>>
                 h == Unescape(authority, "host")
             IN  IF h.err # "nil" THEN [err |-> h.err, url |-> NoURL]
                 ELSE SetPath([u0 EXCEPT !.Host = h.val], path)
        ELSE SetPath(u0, rest)

\* url.validEncoded for the path mode.
EncodedPunct == {"!","$","&","'","(",")","*","+",",",";","=",":","@","[","]","%"}
ValidEncoded(s) ==
    \A i \in 1..Len(s) :
        \/ s[i] \in EncodedPunct
        \/ ~ShouldEscape(s[i], "path")

\* URL.EscapedPath
EscapedPath(u) ==
    IF u.RawPath # <<>> /\ ValidEncoded(u.RawPath)
       /\ Unescape(u.RawPath, "path") = [err |-> "nil", val |-> u.Path]
    THEN u.RawPath
    ELSE Escape(u.Path, "path")

\* URL.String.  OmitHost is never set here: it needs a scheme followed by a
\* single "/", and the only scheme ever parsed is that of BASE_URL, which is
\* followed by "//".
String(u) ==
    (IF u.Scheme # <<>> THEN u.Scheme \o <<":">> ELSE <<>>)
    \o (IF u.Opaque # <<>> THEN u.Opaque
        ELSE LET auth == IF u.Scheme # <<>> \/ u.Host # <<>>
                         THEN (IF u.Host # <<>> \/ u.Path # <<>> THEN <<"/","/">> ELSE <<>>)
                              \o Escape(u.Host, "host")
                         ELSE <<>>
                 path == EscapedPath(u)
             IN  auth
                 \o (IF path # <<>> /\ path[1] # "/" /\ u.Host # <<>> THEN <<"/">> ELSE <<>>)
                 \o (IF u.Scheme = <<>> /\ auth = <<>>
                        /\ Contains(IF Contains(path, "/") THEN SubSeq(path, 1, Index(path, "/") - 1) ELSE path, ":")
                     THEN <<".","/">> ELSE <<>>)
                 \o path)

\* ------------------------------------------------------- encoding/json
\* The JSON member names a modelled body can hold: those of Profile.FirstName,
\* Profile.Height, Device.ID / Activity.ID and DeviceProfiles.ItemCount /
\* Activities.ItemCount.
Keys == {"firstString", "height", "id", "itemCount"}

\* The members each result type has among Keys.  Summaries has none: its
\* only member is "summaries".
FieldsOf(type) ==
    CASE type = "Profile" -> {"firstString", "height"}
      [] type \in {"Device", "Activity"} -> {"id"}
      [] type \in {"DeviceProfiles", "Activities"} -> {"itemCount"}
      [] type = "Summaries" -> {}

\* A value of a result type, by the Go names of the members above; a member
\* the type lacks stays at its zero.
Zero == [FirstName |-> "", Height |-> 0, ID |-> "", ItemCount |-> 0]
\* A Profile that already holds data.
Old == [FirstName |-> "Old", Height |-> 1, ID |-> "", ItemCount |-> 0]

\* A member of a JSON object: absent, a JSON string or a JSON number (its text).
Absent == [t |-> "absent", v |-> ""]
StrVals == {"Jane"}
NumVals == {"170"}
FieldVals == {Absent} \cup [t : {"string"}, v : StrVals] \cup [t : {"number"}, v : NumVals]

\* What a response body holds: nothing, malformed JSON, a well-formed JSON
\* array, or a well-formed JSON object with members among Keys.
NonObjects == [kind : {"empty", "syntax", "array"}, firstString : {Absent}, height : {Absent},
               id : {Absent}, itemCount : {Absent}]
Objects == [kind : {"object"}, firstString : FieldVals, height : FieldVals,
            id : FieldVals, itemCount : FieldVals]

\* strconv: the int a JSON number text denotes.
Atoi(t) == CASE t = "170" -> 170 [] OTHER -> 0

\* json.NewEncoder(buf).Encode(body): nil and plain values encode, a channel
\* does not.
Encode(body) ==
    CASE body = "nil" -> [err |-> "nil", text |-> "null"]
      [] body = "value" -> [err |-> "nil", text |-> "json(value)"]
      [] body = "chan" -> [err |-> "json: unsupported type", text |-> ""]

\* Variant of Decode that stores the string members only.
DecodeDropsHeight(type, dst, body) ==
    CASE body.kind = "object" ->
            [dst |-> [dst EXCEPT !.FirstName = IF "firstString" \in FieldsOf(type)
                                                  /\ body.firstString.t = "string"
                                               THEN body.firstString.v ELSE @,
                                 !.ID = IF "id" \in FieldsOf(type) /\ body.id.t = "string"
                                        THEN body.id.v ELSE @],
             err |-> IF \/ "firstString" \in FieldsOf(type) /\ body.firstString.t = "number"
                        \/ "height" \in FieldsOf(type) /\ body.height.t = "string"
                        \/ "id" \in FieldsOf(type) /\ body.id.t = "number"
                        \/ "itemCount" \in FieldsOf(type) /\ body.itemCount.t = "string"
                     THEN "UnmarshalTypeError" ELSE "nil"]
      [] body.kind = "empty" -> [dst |-> dst, err |-> "EOF"]
      [] body.kind = "syntax" -> [dst |-> dst, err |-> "SyntaxError"]
      [] body.kind = "array" -> [dst |-> dst, err |-> "UnmarshalTypeError"]

\* json.NewDecoder(body).Decode(&dst), dst of the given result type.  The
\* decoder reads and validates one whole JSON value before it stores
\* anything.  Storing an object skips the members the type does not have,
\* carries on past a member of the wrong type and reports the mismatch at
\* the end.
Decode(type, dst, body) ==
    CASE body.kind = "empty" -> [dst |-> dst, err |-> "EOF"]
      [] body.kind = "syntax" -> [dst |-> dst, err |-> "SyntaxError"]
      [] body.kind = "array" -> [dst |-> dst, err |-> "UnmarshalTypeError"]
      [] body.kind = "object" ->
            [dst |-> [FirstName |-> IF "firstString" \in FieldsOf(type)
                                       /\ body.firstString.t = "string"
                                    THEN body.firstString.v ELSE dst.FirstName,
                      Height |-> IF "height" \in FieldsOf(type) /\ body.height.t = "number"
                                 THEN Atoi(body.height.v) ELSE dst.Height,
                      ID |-> IF "id" \in FieldsOf(type) /\ body.id.t = "string"
                             THEN body.id.v ELSE dst.ID,
                      ItemCount |-> IF "itemCount" \in FieldsOf(type)
                                       /\ body.itemCount.t = "number"
                                    THEN Atoi(body.itemCount.v) ELSE dst.ItemCount],
             err |-> IF \/ "firstString" \in FieldsOf(type) /\ body.firstString.t = "number"
                        \/ "height" \in FieldsOf(type) /\ body.height.t = "string"
                        \/ "id" \in FieldsOf(type) /\ body.id.t = "number"
                        \/ "itemCount" \in FieldsOf(type) /\ body.itemCount.t = "string"
                     THEN "UnmarshalTypeError" ELSE "nil"]

\* ------------------------------------------------------------- net/http
GET == <<"G","E","T">>
TokenChars == AlNum
                \cup {"!","#","$","%","&","'","*","+","-",".","^","_",Backtick,"|","~"}
\* http.validMethod
ValidMethod(m) == Len(m) > 0 /\ \A i \in 1..Len(m) : m[i] \in TokenChars

NoReq == [Method |-> <<>>, URL |-> NoURL, UserAgent |-> "", Body |-> ""]

\* http.NewRequest(method, url, body)
HttpNewRequest(method, urlStr, text) ==
    LET m == IF method = <<>> THEN GET ELSE method
        u == Parse(urlStr)
    IN  IF ~ValidMethod(m) THEN [err |-> "net/http: invalid method", req |-> NoReq]
        ELSE IF u.err # "nil" THEN [err |-> u.err, req |-> NoReq]
        ELSE [err |-> "nil",
              req |-> [Method |-> m, URL |-> u.url, UserAgent |-> "", Body |-> text]]

\* ------------------------------------------------------------ cloud.go
\* Client.NewRequest: the URL is parsed from the string of the base
\* endpoint followed by urlStr.
\* Variant of Concat that puts a separator between the two.
ConcatWithSeparator(base, urlStr) == String(base) \o <<"/">> \o urlStr

Concat(base, urlStr) == String(base) \o urlStr

NewRequest(base, method, urlStr, body) ==
    LET first == Parse(urlStr)
        resolvedUrl == Parse(Concat(base, urlStr))
        enc == IF body # "nil" THEN Encode(body) ELSE [err |-> "nil", text |-> ""]
        made == HttpNewRequest(method, String(resolvedUrl.url), enc.text)
    IN  IF first.err # "nil" THEN [err |-> first.err, req |-> NoReq]
        ELSE IF resolvedUrl.err # "nil" THEN [err |-> resolvedUrl.err, req |-> NoReq]
        ELSE IF enc.err # "nil" THEN [err |-> enc.err, req |-> NoReq]
        ELSE IF made.err # "nil" THEN made
        ELSE [err |-> "nil", req |-> [made.req EXCEPT !.UserAgent = USER_AGENT]]

\* Variant of StatusOK without the upper limit.
StatusOKNoUpper(code) == ~(code < 200)

\* Client.Do, the status test.
StatusOK(code) == ~(code > 299 \/ code < 200)

\* Variant of Do that hands back no response when decoding failed.
DoNilOnDecodeError(r, hasDst, type, dst) ==
    IF ~StatusOK(r.StatusCode)
    THEN [resp |-> "nil", err |-> "http request failed", dst |-> dst, closes |-> r.closes + 1]
    ELSE LET d == IF hasDst THEN Decode(type, dst, r.Body) ELSE [dst |-> dst, err |-> "nil"]
         IN  [resp |-> IF d.err = "nil" THEN "resp" ELSE "nil",
              err |-> d.err, dst |-> d.dst, closes |-> r.closes + 1]

\* Client.Do from the deferred close on: r is the response the transport
\* returned, hasDst whether respStr is non-nil, type and dst the type and the
\* value of what respStr points to.  The deferred resp.Body.Close() runs on
\* each of the three returns.
Do(r, hasDst, type, dst) ==
    IF ~StatusOK(r.StatusCode)
    THEN [resp |-> "nil", err |-> "http request failed", dst |-> dst, closes |-> r.closes + 1]
    ELSE LET d == IF hasDst THEN Decode(type, dst, r.Body) ELSE [dst |-> dst, err |-> "nil"]
         IN  [resp |-> "resp", err |-> d.err, dst |-> d.dst, closes |-> r.closes + 1]

\* Variant of Token that refuses an expired token and forgets it.
TokenExpiring(t) ==
    IF t.Expiry = "past"
    THEN [tok |-> <<>>, err |-> "token expired", wrapped |-> [t EXCEPT !.AccessToken = ""]]
    ELSE [tok |-> <<t>>, err |-> "nil", wrapped |-> t]

\* tokenSource.Token: the wrapped token itself and a nil error.
Token(t) == [tok |-> <<t>>, err |-> "nil", wrapped |-> t]

\* The path each accessor asks for.
Accessors == {"PeriodSummaries", "Profile", "Devices", "Device", "Activities", "Activity"}
WithArg == {"PeriodSummaries", "Device", "Activity"}
HOURLY == <<"h","o","u","r","l","y">>
DAILY == <<"d","a","i","l","y">>

\* The type of the result each accessor declares and hands to Do; a direct
\* caller hands Do a Profile.
ResultType(kind) ==
    CASE kind = "PeriodSummaries" -> "Summaries"
      [] kind = "Profile" -> "Profile"
      [] kind = "Devices" -> "DeviceProfiles"
      [] kind = "Device" -> "Device"
      [] kind = "Activities" -> "Activities"
      [] kind = "Activity" -> "Activity"
      [] kind = "Direct" -> "Profile"

AccessorPath(kind, arg) ==
    CASE kind = "PeriodSummaries" -> <<"/","S","u","m","m","a","r","i","e","s","/">> \o arg
      [] kind = "Profile" -> <<"/","P","r","o","f","i","l","e">>
      [] kind = "Devices" -> <<"/","D","e","v","i","c","e","s">>
      [] kind = "Device" -> <<"/","D","e","v","i","c","e","s","/">> \o arg
      [] kind = "Activities" -> <<"/","A","c","t","i","v","i","t","i","e","s">>
      [] kind = "Activity" -> <<"/","A","c","t","i","v","i","t","i","e","s","/">> \o arg

\* ------------------------------------------------------------- inputs
Calls == 1..NumCalls

\* Status codes a transport may answer with, on both sides of each limit of
\* the success range.
Statuses == {199, 200, 299, 300}
EmptyBody == [kind |-> "empty", firstString |-> Absent, height |-> Absent,
              id |-> Absent, itemCount |-> Absent]

\* What the transport does with a request: fail, or answer.
Nets == [fail : {TRUE}, StatusCode : {0}, Body : {EmptyBody}]
          \cup [fail : {FALSE}, StatusCode : Statuses, Body : NonObjects \cup Objects]

Methods == {GET, <<>>, <<"G"," ","T">>, <<"G",Backtick,"T">>}

\* One call: an accessor with its argument, or ("Direct") NewRequest
\* followed by Do called by the user with a method, a path, a request body
\* and a destination (none, a fresh one, or one that already holds data).
AccessorInputs ==
    {i \in [kind : Accessors, arg : Paths \cup {HOURLY, DAILY}, method : {GET}, body : {"nil"},
            dstKind : {"zero"}] :
        /\ i.kind \notin WithArg => i.arg = <<>>
        /\ i.arg \in {HOURLY, DAILY} => i.kind = "PeriodSummaries"}
DirectInputs ==
    [kind : {"Direct"}, arg : Paths, method : Methods, body : {"nil", "value", "chan"},
     dstKind : {"nil", "zero", "old"}]
Inputs == AccessorInputs \cup DirectInputs

\* The concurrent runs: two accessors, and replies that differ in status,
\* in well-formedness and in the values they carry.
ConcInputs ==
    {i \in AccessorInputs : i.kind = "Profile" \/ (i.kind = "Device" /\ i.arg = <<"P">>)}
ConcNets ==
    {n \in Nets :
        \/ n.fail
        \/ /\ n.StatusCode \in {200, 300}
           /\ n.Body.kind = "object"
           /\ n.Body.itemCount.t = "absent"
           /\ <<n.Body.firstString.t, n.Body.height.t, n.Body.id.t>>
                 \in {<<"string", "number", "absent">>, <<"string", "string", "absent">>,
                      <<"absent", "absent", "string">>, <<"number", "absent", "number">>}
           /\ n.StatusCode = 300 => n.Body.id.t = "string"}

UrlStr(i) == IF i.kind = "Direct" THEN i.arg ELSE AccessorPath(i.kind, i.arg)
Dst0(i) == IF i.dstKind = "old" THEN Old ELSE Zero

Tokens == [AccessToken : {"a1", "a2"}, TokenType : {"Bearer", ""},
           RefreshToken : {"", "r1"}, Expiry : {"zero", "past", "future"}]

\* -------------------------------------------------------------- state
VARIABLES
    baseURL,   \* the package-level URL every Client's BaseUrl points to
    in,        \* in[p]: the inputs of call p
    net,       \* net[p]: what the transport did with the request of call p
    pc,        \* pc[p]: where call p stands
    req,       \* req[p]: what NewRequest returned to call p
    resp,      \* resp[p]: the response the transport handed to call p
    sends,     \* sends[p]: how often call p invoked the transport
    dst,       \* dst[p]: the destination of call p (the accessor's local result)
    doRet,     \* doRet[p]: what Do returned to call p
    ret,       \* ret[p]: what the accessor returned
    tok,       \* the token a tokenSource wraps
    tokRet,    \* the token the last Token() call returned (<<>>: no call yet)
    tokErr,    \* the error the last Token() call returned
    tokCalls   \* number of Token() calls so far

vars == <<baseURL, in, net, pc, req, resp, sends, dst, doRet, ret, tok, tokRet, tokErr, tokCalls>>
tokVars == <<tok, tokRet, tokErr, tokCalls>>

NoResp == [present |-> FALSE, StatusCode |-> 0, Body |-> EmptyBody, closes |-> 0]
NoDoRet == [resp |-> "nil", err |-> "nil"]
NoRet == [val |-> Zero, err |-> "nil"]
NoNet == [fail |-> TRUE, StatusCode |-> 0, Body |-> EmptyBody]
IdleInput == [kind |-> "Profile", arg |-> <<>>, method |-> GET, body |-> "nil", dstKind |-> "zero"]
DefaultToken == [AccessToken |-> "a1", TokenType |-> "Bearer", RefreshToken |-> "", Expiry |-> "zero"]

\* NewClient: BaseUrl is the package's baseURL, parsed once from BASE_URL.
InitCommon ==
    /\ baseURL = Parse(BASE_URL).url
    /\ net = [p \in Calls |-> NoNet]
    /\ req = [p \in Calls |-> [err |-> "nil", req |-> NoReq]]
    /\ resp = [p \in Calls |-> NoResp]
    /\ sends = [p \in Calls |-> 0]
    /\ dst = [p \in Calls |-> Zero]
    /\ doRet = [p \in Calls |-> NoDoRet]
    /\ ret = [p \in Calls |-> NoRet]
    /\ tokRet = <<>>
    /\ tokErr = "nil"
    /\ tokCalls = 0

\* One call at a time, over every input.
Init ==
    /\ InitCommon
    /\ tok = DefaultToken
    /\ \E i \in Inputs : in = [p \in Calls |-> IF p = 1 THEN i ELSE IdleInput]
    /\ pc = [p \in Calls |-> IF p = 1 THEN "idle" ELSE "off"]

\* All calls at once on the shared Client.
InitConc ==
    /\ InitCommon
    /\ tok = DefaultToken
    /\ in \in [Calls -> ConcInputs]
    /\ pc = [p \in Calls |-> "idle"]

\* A tokenSource around any token, and no call.
InitToken ==
    /\ InitCommon
    /\ tok \in Tokens
    /\ in = [p \in Calls |-> IdleInput]
    /\ pc = [p \in Calls |-> "off"]

\* ------------------------------------------------------------- actions
\* Variant of BeginEffects that goes on to the transport after a build error.
BeginEffectsIgnoringError(p, r) ==
    /\ req' = [req EXCEPT ![p] = r]
    /\ dst' = [dst EXCEPT ![p] = Dst0(in[p])]
    /\ pc' = [pc EXCEPT ![p] = "built"]
    /\ ret' = ret

\* What the start of a call leaves behind once NewRequest returned r: the
\* accessor's zero-valued result (a direct caller's own destination), and
\* on a build error the accessor's return of that error.
BeginEffects(p, r) ==
    /\ req' = [req EXCEPT ![p] = r]
    /\ dst' = [dst EXCEPT ![p] = Dst0(in[p])]
    /\ IF r.err # "nil"
       THEN /\ pc' = [pc EXCEPT ![p] = "done"]
            /\ ret' = [ret EXCEPT ![p] = [val |-> Dst0(in[p]), err |-> r.err]]
       ELSE /\ pc' = [pc EXCEPT ![p] = "built"]
            /\ ret' = ret

\* Variant of Begin that keeps the resolved URL as the new base endpoint.
BeginRebasing(p) ==
    /\ pc[p] = "idle"
    /\ LET r == NewRequest(baseURL, in[p].method, UrlStr(in[p]), in[p].body)
       IN  /\ BeginEffects(p, r)
           /\ baseURL' = IF r.err = "nil" THEN r.req.URL ELSE baseURL
    /\ UNCHANGED <<in, net, resp, sends, doRet, tokVars>>

\* The call starts: the accessor declares its result and builds the request
\* (a direct caller calls NewRequest).  Nothing else is touched.
Begin(p) ==
    /\ pc[p] = "idle"
    /\ BeginEffects(p, NewRequest(baseURL, in[p].method, UrlStr(in[p]), in[p].body))
    /\ UNCHANGED <<baseURL, in, net, resp, sends, doRet, tokVars>>

\* Do, first line: c.Client.Do(req), the transport answering with one of
\* replies.  A transport error makes Do return (nil, err) at once.
SendFrom(p, replies) ==
    /\ pc[p] = "built"
    /\ sends' = [sends EXCEPT ![p] = @ + 1]
    /\ \E n \in replies :
        /\ net' = [net EXCEPT ![p] = n]
        /\ IF n.fail
           THEN /\ doRet' = [doRet EXCEPT ![p] = [resp |-> "nil", err |-> "transport"]]
                /\ pc' = [pc EXCEPT ![p] = "doReturned"]
                /\ resp' = resp
           ELSE /\ resp' = [resp EXCEPT ![p] = [present |-> TRUE, StatusCode |-> n.StatusCode,
                                                Body |-> n.Body, closes |-> 0]]
                /\ pc' = [pc EXCEPT ![p] = "received"]
                /\ doRet' = doRet
    /\ UNCHANGED <<baseURL, in, req, dst, ret, tokVars>>

Send(p) == SendFrom(p, Nets)
SendConc(p) == SendFrom(p, ConcNets)

\* Variant of Finish that decodes into one destination shared by all calls.
FinishSharedDst(p) ==
    /\ pc[p] = "received"
    /\ LET d == Do(resp[p], in[p].dstKind # "nil", ResultType(in[p].kind), dst[p])
       IN  /\ doRet' = [doRet EXCEPT ![p] = [resp |-> d.resp, err |-> d.err]]
           /\ dst' = [q \in Calls |-> d.dst]
           /\ resp' = [resp EXCEPT ![p].closes = d.closes]
    /\ pc' = [pc EXCEPT ![p] = "doReturned"]
    /\ UNCHANGED <<baseURL, in, net, req, sends, ret, tokVars>>

\* Do, the rest: status test, decode, deferred close, return.
Finish(p) ==
    /\ pc[p] = "received"
    /\ LET d == Do(resp[p], in[p].dstKind # "nil", ResultType(in[p].kind), dst[p])
       IN  /\ doRet' = [doRet EXCEPT ![p] = [resp |-> d.resp, err |-> d.err]]
           /\ dst' = [dst EXCEPT ![p] = d.dst]
           /\ resp' = [resp EXCEPT ![p].closes = d.closes]
    /\ pc' = [pc EXCEPT ![p] = "doReturned"]
    /\ UNCHANGED <<baseURL, in, net, req, sends, ret, tokVars>>

\* The accessor after Do: return the result with the error, or close the
\* body and return the result.
Return(p) ==
    /\ pc[p] = "doReturned"
    /\ in[p].kind \in Accessors
    /\ IF doRet[p].err # "nil"
       THEN /\ ret' = [ret EXCEPT ![p] = [val |-> dst[p], err |-> doRet[p].err]]
            /\ resp' = resp
       ELSE /\ resp' = [resp EXCEPT ![p].closes = @ + 1]
            /\ ret' = [ret EXCEPT ![p] = [val |-> dst[p], err |-> "nil"]]
    /\ pc' = [pc EXCEPT ![p] = "done"]
    /\ UNCHANGED <<baseURL, in, net, req, sends, dst, doRet, tokVars>>

\* One Token() call on the tokenSource.
TokenCall ==
    /\ tokCalls < MaxTokenCalls
    /\ LET r == Token(tok)
       IN  /\ tokRet' = r.tok
           /\ tokErr' = r.err
           /\ tok' = r.wrapped
    /\ tokCalls' = tokCalls + 1
    /\ UNCHANGED <<baseURL, in, net, pc, req, resp, sends, dst, doRet, ret>>

Next == \E p \in Calls : Begin(p) \/ Send(p) \/ Finish(p) \/ Return(p)
NextConc == \E p \in Calls : Begin(p) \/ SendConc(p) \/ Finish(p) \/ Return(p)
NextToken == TokenCall

Spec == Init /\ [][Next]_vars
SpecConc == InitConc /\ [][NextConc]_vars
SpecToken == InitToken /\ [][NextToken]_vars

\* -------------------------------------------------------------- claims
DoCalled(p) == sends[p] = 1 /\ pc[p] \in {"doReturned", "done"}
DoFinished(p) == DoCalled(p) /\ resp[p].present
AccessorDone(p) == pc[p] = "done" /\ in[p].kind \in Accessors
\* NewRequest has just returned a request to call p.
JustBuilt(p) == pc[p] = "built" /\ req[p].err = "nil"
OutOfRange(code) == code < 200 \/ code > 299

\* C1: whenever an accessor returns after the transport handed it a
\* response, the body of that response has been closed exactly once.
C1_ClosedExactlyOnce ==
    \A p \in Calls : (AccessorDone(p) /\ resp[p].present) => resp[p].closes = 1

\* C2: for a response with a status below 200 or above 299, Do returns a
\* non-nil error whatever the body holds and leaves the destination as it
\* was before the call.
C2_StatusFailureLeavesDestination ==
    \A p \in Calls :
        (DoFinished(p) /\ OutOfRange(resp[p].StatusCode))
            => (doRet[p].err # "nil" /\ dst[p] = Dst0(in[p]))

C2_Witness ==
    \E p \in Calls :
        /\ DoFinished(p) /\ resp[p].StatusCode = 300
        /\ resp[p].Body.kind = "object" /\ resp[p].Body.firstString.t = "string"
        /\ resp[p].Body.height.t = "number"
        /\ in[p].dstKind = "old" /\ dst[p] = Old

\* C3: whenever an accessor returns a non-nil error, the result it returns
\* with it is the zero value.
C3_ErrorMeansZeroResult ==
    \A p \in Calls : (AccessorDone(p) /\ ret[p].err # "nil") => ret[p].val = Zero

\* C4: for a response with a status in 200..299 and a well-formed JSON
\* object in which every member the destination type has is of that
\* member's type, Do with a non-nil destination returns a nil error and the
\* destination holds those members of the body (a member the body lacks
\* keeps its value).
Has(p, k) == k \in FieldsOf(ResultType(in[p].kind))

Matching(p, body) ==
    /\ body.kind = "object"
    /\ Has(p, "firstString") => body.firstString.t \in {"absent", "string"}
    /\ Has(p, "height") => body.height.t \in {"absent", "number"}
    /\ Has(p, "id") => body.id.t \in {"absent", "string"}
    /\ Has(p, "itemCount") => body.itemCount.t \in {"absent", "number"}

C4_SuccessPopulatesDestination ==
    \A p \in Calls :
        (/\ DoFinished(p) /\ ~OutOfRange(resp[p].StatusCode)
         /\ Matching(p, resp[p].Body) /\ in[p].dstKind # "nil")
            => /\ doRet[p].err = "nil"
               /\ dst[p].FirstName = IF Has(p, "firstString") /\ resp[p].Body.firstString.t = "string"
                                     THEN resp[p].Body.firstString.v
                                     ELSE Dst0(in[p]).FirstName
               /\ dst[p].Height = IF Has(p, "height") /\ resp[p].Body.height.v = "170"
                                  THEN 170 ELSE Dst0(in[p]).Height
               /\ dst[p].ID = IF Has(p, "id") /\ resp[p].Body.id.t = "string"
                              THEN resp[p].Body.id.v ELSE Dst0(in[p]).ID
               /\ dst[p].ItemCount = IF Has(p, "itemCount") /\ resp[p].Body.itemCount.v = "170"
                                     THEN 170 ELSE Dst0(in[p]).ItemCount

C4_Witness ==
    \E p \in Calls :
        /\ DoFinished(p) /\ resp[p].StatusCode = 299
        /\ in[p].kind = "Direct" /\ in[p].dstKind = "old"
        /\ resp[p].Body.kind = "object"
        /\ resp[p].Body.firstString = [t |-> "string", v |-> "Jane"]
        /\ resp[p].Body.height = [t |-> "number", v |-> "170"]
        /\ resp[p].Body.id = [t |-> "number", v |-> "170"]
        /\ dst[p] = [FirstName |-> "Jane", Height |-> 170, ID |-> "", ItemCount |-> 0]

\* C5 as stated: the URL of every request NewRequest returns is exactly the
\* string of the base endpoint followed by the path.
C5_URLIsPlainConcatenation ==
    \A p \in Calls : JustBuilt(p) => String(req[p].req.URL) = String(baseURL) \o UrlStr(in[p])

\* The path with each space written as its percent-encoding.
RECURSIVE SpacesEncoded(_)
SpacesEncoded(s) ==
    IF s = <<>> THEN <<>>
    ELSE (IF Head(s) = " " THEN <<"%","2","0">> ELSE <<Head(s)>>) \o SpacesEncoded(Tail(s))

\* C5 amended: for a path of letters, digits, "/" and spaces, the URL of the
\* request NewRequest returns is the string of the base endpoint followed by
\* the path with each space written as %20; with no space in the path it is
\* exactly the base endpoint followed by the path.
C5_URLIsConcatenationEscaped ==
    \A p \in Calls :
        JustBuilt(p) =>
            /\ String(req[p].req.URL) = String(baseURL) \o SpacesEncoded(UrlStr(in[p]))
            /\ ~Contains(UrlStr(in[p]), " ")
                  => String(req[p].req.URL) = String(baseURL) \o UrlStr(in[p])

C5_Witness ==
    \E p \in Calls :
        /\ JustBuilt(p) /\ in[p].kind = "Direct"
        /\ in[p].arg = <<"/", "P", " ">>
        /\ String(req[p].req.URL) = BASE_URL \o <<"/", "P", "%", "2", "0">>

\* C6: a call invokes the transport at most once, and not at all when
\* building the request failed: the accessor then returns the build error.
C6_AtMostOneExchange ==
    \A p \in Calls :
        /\ sends[p] <= 1
        /\ (pc[p] # "idle" /\ pc[p] # "off" /\ req[p].err # "nil")
              => (sends[p] = 0 /\ pc[p] = "done" /\ ret[p].err = req[p].err)

C6_Witness ==
    \E p \in Calls :
        /\ AccessorDone(p) /\ in[p].kind = "Device" /\ in[p].arg = <<"%">>
        /\ req[p].err = "invalid URL escape" /\ sends[p] = 0

\* C7: every Token() call on the static tokenSource returns the wrapped
\* token and a nil error, and leaves the wrapped token as it was.
C7_TokenIsFixedPoint ==
    [][tokCalls' # tokCalls => (tokRet' = <<tok>> /\ tokErr' = "nil" /\ tok' = tok)]_vars

C7_Witness ==
    /\ tokCalls >= 2 /\ tok.Expiry = "past" /\ tok.RefreshToken = "r1"
    /\ tokRet = <<tok>>

\* C8: no step of any call on any client changes the base endpoint.
C8_BaseEndpointNeverChanges == [][baseURL' = baseURL]_vars

C8_Witness ==
    /\ \A p \in Calls : pc[p] = "done"
    /\ \E p \in Calls : ret[p].err = "nil" /\ in[p].kind = "Device"
    /\ String(baseURL) = BASE_URL

\* What an accessor must return given only its kind, the request built for
\* it and what the transport did with that request.
Expected(kind, r, n) ==
    LET has(k) == k \in FieldsOf(ResultType(kind))
    IN  IF r.err # "nil" THEN [val |-> Zero, err |-> r.err]
        ELSE IF n.fail THEN [val |-> Zero, err |-> "transport"]
        ELSE IF OutOfRange(n.StatusCode) THEN [val |-> Zero, err |-> "http request failed"]
        ELSE IF n.Body.kind # "object"
        THEN [val |-> Zero,
              err |-> CASE n.Body.kind = "empty" -> "EOF"
                        [] n.Body.kind = "syntax" -> "SyntaxError"
                        [] n.Body.kind = "array" -> "UnmarshalTypeError"]
        ELSE [val |-> [FirstName |-> IF has("firstString") /\ n.Body.firstString.t = "string"
                                     THEN n.Body.firstString.v ELSE "",
                       Height |-> IF has("height") /\ n.Body.height.t = "number" THEN 170 ELSE 0,
                       ID |-> IF has("id") /\ n.Body.id.t = "string" THEN n.Body.id.v ELSE "",
                       ItemCount |-> IF has("itemCount") /\ n.Body.itemCount.t = "number"
                                     THEN 170 ELSE 0],
              err |-> IF \E k \in FieldsOf(ResultType(kind)) :
                             n.Body[k].t = (IF k \in {"firstString", "id"} THEN "number" ELSE "string")
                      THEN "UnmarshalTypeError" ELSE "nil"]

\* C9: with several calls running at once on the shared Client, what each
\* call returns is determined by its own request and the response to it.
C9_CallsDoNotInterfere ==
    \A p \in Calls : pc[p] = "done" => ret[p] = Expected(in[p].kind, req[p], net[p])

C9_Witness ==
    \E p, q \in Calls :
        /\ p # q /\ pc[p] = "done" /\ pc[q] = "done"
        /\ in[p].kind = "Profile" /\ in[q].kind = "Device"
        /\ net[p].Body.firstString.t = "string" /\ net[p].Body.height.t = "string"
        /\ ret[p].val.FirstName = "Jane" /\ ret[p].err = "UnmarshalTypeError"
        /\ net[q].Body.id.t = "string" /\ net[q].StatusCode = 200
        /\ ret[q].val.ID = "Jane" /\ ret[q].val.FirstName = "" /\ ret[q].err = "nil"

\* C10: Do returns a nil response exactly when the transport failed or the
\* status is outside 200..299; a response it does return may come with a
\* decode error, and its body is closed by then.
C10_DoResponseNilIffFailed ==
    \A p \in Calls :
        DoCalled(p) =>
            /\ doRet[p].resp = "nil" <=> (net[p].fail \/ OutOfRange(net[p].StatusCode))
            /\ doRet[p].resp # "nil" => resp[p].closes >= 1
            /\ (doRet[p].resp # "nil" /\ pc[p] = "doReturned") => resp[p].closes = 1

C10_Witness ==
    \E p \in Calls :
        /\ pc[p] = "doReturned" /\ doRet[p].resp = "resp"
        /\ doRet[p].err = "SyntaxError" /\ resp[p].closes = 1

====
